---- MODULE Spec2Model ----
(***************************************************************************)
(* Verification model of the ESMFold cluster scripts:                      *)
(*   - the FASTA reader            (fold_gpu/array/run_fold_parallel.py)   *)
(*   - the shared append log       (fold_gpu/array/run_fold_parallel.py)   *)
(*   - the job submitter and tasks (fold_gpu/array/submitter_fold.py)      *)
(*   - the collector               (fold_gaudi/array/collector.py)         *)
(* Five specifications share the variables: SpecFasta, SpecFold, SpecLog,  *)
(* SpecLock (SpecLog with failing writes, fair writers) and SpecCollect;   *)
(* each leaves the other parts at their idle value.                        *)
(***************************************************************************)
EXTENDS Integers, Sequences, FiniteSets, TLC

VARIABLES
    \* ---- FASTA reader (load_fasta_entries) ----
    text,            \* the characters of the file, newlines already universal
    rest,            \* the characters the line iterator has not yet delivered
    fpc,             \* "idle" | "reading" | "returned" | "reread"
    descs_list,      \* flushed descriptions
    seqs_list,       \* flushed sequences
    current_desc,    \* <<>> for None, <<d>> for the description d
    current_chunks,  \* the sequence lines of the record being read
    ret,             \* the returned pair <<seqs_list, descs_list>>
    wrap,            \* the wrap width of the reconstructed file (0: none yet)
    reread,          \* what the reader returns for the reconstructed file
    \* ---- job submitter, array tasks and the shared append log ----
    faa,             \* per sequence file: the record size of each of its entries
    sub_j,           \* the submitter's loop index over the sequence files
    tpc,             \* per task <<i, j>>: where it is in run_fold_parallel.py
    folded,          \* per task: the entry <<j, i>> it folded (<<>>: none)
    fbuf,            \* per task: bytes held by the file object, not yet written
    woff,            \* per task: the end of file its write in flight goes to
    logf,            \* per sequence file: the bytes of its shared log
    lock,            \* per sequence file: the tasks holding its exclusive lock
    \* ---- collector ----
    pdb_files,       \* every structure file found under the sub-directories
    csv_files,       \* every score file found under the sub-directories
    tables,          \* what the score files hold: "scores" | "empty" | "other_columns"
    cpc,             \* "idle" | "scan" | "files" | "mp_calc" | "done" | an error
    ci,              \* the index of the sequence file being processed
    parsed,          \* the sequence files read so far, in order
    matching_pdb_files,  \* the sorted structure files of file ci
    matching_csv_files,  \* the sorted score files of file ci
    chunked,         \* the rows the workers have returned for file ci, by entry
    results,         \* the rows of the files done so far
    written          \* the table written to collected_results.csv.gz

fastaVars == <<text, rest, fpc, descs_list, seqs_list, current_desc,
               current_chunks, ret, wrap, reread>>

foldVars == <<faa, sub_j, tpc, folded, fbuf, woff, logf, lock>>

collectVars == <<pdb_files, csv_files, tables, cpc, ci, parsed,
                 matching_pdb_files, matching_csv_files, chunked, results,
                 written>>

vars == <<fastaVars, foldVars, collectVars>>

(***************************************************************************)
(* Bounds                                                                   *)
(***************************************************************************)
MaxChars == 5
MaxWrap == 3
MaxFiles == 2
MaxEntries == 2
MaxRecLen == 2
MaxPool == 2

\* the file object's buffer size (io.DEFAULT_BUFFER_SIZE), scaled down
BufSize == 1

(***************************************************************************)
(* Characters and strings (sequences of one-character strings)             *)
(***************************************************************************)
GT == ">"
SP == " "
TAB == "\t"
NL == "\n"
HASH == "#"
SEMI == ";"
RES == "A"

Alphabet == {GT, SP, TAB, NL, HASH, SEMI, RES}

\* str.strip() strips every whitespace character, not only the space
IsSpace(c) == c \in {SP, TAB, NL}

RECURSIVE LStrip(_)
LStrip(s) ==
    IF s = <<>> THEN <<>>
    ELSE IF IsSpace(Head(s)) THEN LStrip(Tail(s)) ELSE s

RECURSIVE RStrip(_)
RStrip(s) ==
    IF s = <<>> THEN <<>>
    ELSE IF IsSpace(s[Len(s)]) THEN RStrip(SubSeq(s, 1, Len(s) - 1)) ELSE s

Strip(s) == RStrip(LStrip(s))

StartsWith(s, c) == Len(s) >= 1 /\ s[1] = c

RECURSIVE Join(_)
Join(chunks) ==
    IF chunks = <<>> THEN <<>> ELSE Head(chunks) \o Join(Tail(chunks))

\* str.replace(" ", ""): only the space character U+0020 is dropped
ReplaceSpaces(s) == SelectSeq(s, LAMBDA c : c # SP)

\* The first line of s as the file iterator delivers it: up to and
\* including the first newline, or all of s when it holds none.
RECURSIVE FirstLineLen(_)
FirstLineLen(s) ==
    IF s = <<>> THEN 0
    ELSE IF Head(s) = NL THEN 1 ELSE 1 + FirstLineLen(Tail(s))

FirstLine(s) == SubSeq(s, 1, FirstLineLen(s))
AfterFirstLine(s) == SubSeq(s, FirstLineLen(s) + 1, Len(s))

(***************************************************************************)
(* load_fasta_entries                                                       *)
(***************************************************************************)
ParserInit ==
    [descs_list |-> <<>>, seqs_list |-> <<>>,
     current_desc |-> <<>>, current_chunks |-> <<>>]

\* "if current_desc is not None: seq = ...; append both"
Flush(st) ==
    IF st.current_desc # <<>>
    THEN [st EXCEPT
            !.descs_list = Append(@, st.current_desc[1]),
            !.seqs_list = Append(@, ReplaceSpaces(Join(st.current_chunks)))]
    ELSE st

\* the flush after the loop
FlushLastSkipped(st) == st

FlushLast(st) == Flush(st)

\* the loop body with "current_chunks = []" left out at a new header
ProcessLineKeepChunks(st, raw_line) ==
    LET line == Strip(raw_line) IN
    IF line = <<>> \/ StartsWith(line, SEMI) \/ StartsWith(line, HASH)
    THEN st
    ELSE IF StartsWith(line, GT)
    THEN [Flush(st) EXCEPT !.current_desc = <<Strip(Tail(line))>>]
    ELSE [st EXCEPT !.current_chunks = Append(@, line)]

\* the body of "for raw_line in fh"
ProcessLine(st, raw_line) ==
    LET line == Strip(raw_line) IN
    IF line = <<>> \/ StartsWith(line, SEMI) \/ StartsWith(line, HASH)
    THEN st
    ELSE IF StartsWith(line, GT)
    THEN [Flush(st) EXCEPT
            !.current_desc = <<Strip(Tail(line))>>,
            !.current_chunks = <<>>]
    ELSE [st EXCEPT !.current_chunks = Append(@, line)]

RECURSIVE ReadAll(_, _)
ReadAll(st, s) ==
    IF s = <<>> THEN st
    ELSE ReadAll(ProcessLine(st, FirstLine(s)), AfterFirstLine(s))

\* the whole function; it returns (sequences, descriptions)
load_fasta_entries(s) ==
    LET st == FlushLast(ReadAll(ParserInit, s))
    IN <<st.seqs_list, st.descs_list>>

RECURSIVE TextsUpTo(_)
TextsUpTo(n) ==
    IF n = 0 THEN {<<>>}
    ELSE LET shorter == TextsUpTo(n - 1)
         IN shorter \cup {Append(t, c) : t \in {u \in shorter : Len(u) = n - 1},
                                          c \in Alphabet}

ParserState ==
    [descs_list |-> descs_list, seqs_list |-> seqs_list,
     current_desc |-> current_desc, current_chunks |-> current_chunks]

Files == 0..(MaxFiles - 1)
Tasks == (0..MaxEntries) \X Files

FoldIdle ==
    /\ faa = [j \in Files |-> <<>>]
    /\ sub_j = 0
    /\ tpc = [t \in Tasks |-> "none"]
    /\ folded = [t \in Tasks |-> <<>>]
    /\ fbuf = [t \in Tasks |-> <<>>]
    /\ woff = [t \in Tasks |-> 0]
    /\ logf = [j \in Files |-> <<>>]
    /\ lock = [j \in Files |-> {}]

CollectIdle ==
    /\ pdb_files = <<>>
    /\ csv_files = <<>>
    /\ tables = "scores"
    /\ cpc = "idle"
    /\ ci = 0
    /\ parsed = <<>>
    /\ matching_pdb_files = <<>>
    /\ matching_csv_files = <<>>
    /\ chunked = {}
    /\ results = <<>>
    /\ written = <<>>

FastaIdle ==
    /\ text = <<>>
    /\ rest = <<>>
    /\ fpc = "idle"
    /\ descs_list = <<>>
    /\ seqs_list = <<>>
    /\ current_desc = <<>>
    /\ current_chunks = <<>>
    /\ ret = <<>>
    /\ wrap = 0
    /\ reread = <<>>

FastaInit ==
    /\ FoldIdle
    /\ CollectIdle
    /\ text \in TextsUpTo(MaxChars)
    /\ rest = text
    /\ fpc = "reading"
    /\ descs_list = <<>>
    /\ seqs_list = <<>>
    /\ current_desc = <<>>
    /\ current_chunks = <<>>
    /\ ret = <<>>
    /\ wrap = 0
    /\ reread = <<>>

\* one iteration of the loop over the lines of the file
ReadLine ==
    /\ fpc = "reading"
    /\ rest # <<>>
    /\ LET st == ProcessLine(ParserState, FirstLine(rest)) IN
        /\ descs_list' = st.descs_list
        /\ seqs_list' = st.seqs_list
        /\ current_desc' = st.current_desc
        /\ current_chunks' = st.current_chunks
    /\ rest' = AfterFirstLine(rest)
    /\ UNCHANGED <<text, fpc, ret, wrap, reread, foldVars, collectVars>>

\* end of input: the last flush and the return
ReturnEntries ==
    /\ fpc = "reading"
    /\ rest = <<>>
    /\ LET st == FlushLast(ParserState) IN
        /\ descs_list' = st.descs_list
        /\ seqs_list' = st.seqs_list
        /\ current_desc' = st.current_desc
        /\ current_chunks' = st.current_chunks
        /\ ret' = <<st.seqs_list, st.descs_list>>
    /\ fpc' = "returned"
    /\ UNCHANGED <<text, rest, wrap, reread, foldVars, collectVars>>

\* The file of the round trip: per record one ">" + description line, then
\* the sequence wrapped at width w (a single empty line when it is empty).
RECURSIVE WrapLines(_, _)
WrapLines(s, w) ==
    IF Len(s) <= w THEN s \o <<NL>>
    ELSE SubSeq(s, 1, w) \o <<NL>> \o WrapLines(SubSeq(s, w + 1, Len(s)), w)

RECURSIVE Reconstruct(_, _, _)
Reconstruct(seqs, descs, w) ==
    IF descs = <<>> THEN <<>>
    ELSE <<GT>> \o Head(descs) \o <<NL>> \o WrapLines(Head(seqs), w)
         \o Reconstruct(Tail(seqs), Tail(descs), w)

\* write the returned pairs back and read the reconstructed file
Rewrite ==
    /\ fpc = "returned"
    /\ \E w \in 1..MaxWrap :
        /\ wrap' = w
        /\ reread' = load_fasta_entries(Reconstruct(ret[1], ret[2], w))
    /\ fpc' = "reread"
    /\ UNCHANGED <<text, rest, descs_list, seqs_list, current_desc,
                   current_chunks, ret, foldVars, collectVars>>

FastaNext == ReadLine \/ ReturnEntries \/ Rewrite

SpecFasta == FastaInit /\ [][FastaNext]_vars

(***************************************************************************)
(* Job submitter, array tasks, shared append log                            *)
(***************************************************************************)
\* the entry lists the sequence files may hold: at most MaxEntries entries,
\* each standing for a result record of 1..MaxRecLen bytes
RECURSIVE EntryLists(_)
EntryLists(n) ==
    IF n = 0 THEN {<<>>}
    ELSE LET shorter == EntryLists(n - 1)
         IN shorter \cup {Append(e, z) : e \in {u \in shorter : Len(u) = n - 1},
                                          z \in 1..MaxRecLen}

\* "#SBATCH --array=0-{n - 1}"
ArrayRange(n) == [lo |-> 0, hi |-> n - 1]

\* the task indices the scheduler runs for a range (none when hi < lo)
TaskIds(r) == {i \in 0..MaxEntries : r.lo <= i /\ i <= r.hi}

\* out_str of task <<i, j>>: the bytes of its record, each tagged with the
\* file, the entry and its position in the record
Record(i, j) == [k \in 1..faa[j][i + 1] |-> <<j, i, k>>]

\* the file after writing bytes b at offset off
WriteAt(content, off, b) ==
    [p \in 1..(IF off + Len(b) > Len(content) THEN off + Len(b) ELSE Len(content))
        |-> IF p > off /\ p <= off + Len(b) THEN b[p - off] ELSE content[p]]

\* one pass of the submitter's loop: count the entries, render the script,
\* hand it to the scheduler
SubmitFile ==
    /\ sub_j < MaxFiles
    /\ LET n == Len(faa[sub_j])
           ids == TaskIds(ArrayRange(n))
       IN tpc' = [t \in Tasks |->
                    IF t[2] = sub_j /\ t[1] \in ids THEN "queued" ELSE tpc[t]]
    /\ sub_j' = sub_j + 1
    /\ UNCHANGED <<faa, folded, fbuf, woff, logf, lock, fastaVars, collectVars>>

\* run_fold_parallel.py i j, up to the call of write_to_shared_file:
\* entries[i] raises IndexError when i is out of range
StartTask(t) ==
    /\ tpc[t] = "queued"
    /\ IF t[1] < Len(faa[t[2]])
       THEN /\ folded' = [folded EXCEPT ![t] = <<t[2], t[1]>>]
            /\ tpc' = [tpc EXCEPT ![t] = "open"]
       ELSE /\ tpc' = [tpc EXCEPT ![t] = "index_error"]
            /\ UNCHANGED folded
    /\ UNCHANGED <<faa, sub_j, fbuf, woff, logf, lock, fastaVars, collectVars>>

\* open(shared_file, 'a')
OpenLog(t) ==
    /\ tpc[t] = "open"
    /\ tpc' = [tpc EXCEPT ![t] = "lock"]
    /\ UNCHANGED <<faa, sub_j, folded, fbuf, woff, logf, lock, fastaVars, collectVars>>

\* fcntl.flock(f, fcntl.LOCK_EX): blocks while another process holds the lock
AcquireLock(t) ==
    /\ tpc[t] = "lock"
    /\ lock[t[2]] = {}
    /\ lock' = [lock EXCEPT ![t[2]] = {t}]
    /\ tpc' = [tpc EXCEPT ![t] = "write"]
    /\ UNCHANGED <<faa, sub_j, folded, fbuf, woff, logf, fastaVars, collectVars>>

\* f.write(message): a message that fits the buffer stays in the file object;
\* a larger one is passed to the operating system at once.  The log lives on
\* the cluster's shared file system, where an append by one node is not
\* atomic with respect to the other nodes: it takes the end of the file, then
\* writes there.  An atomic append is the run in which the two steps are not
\* interleaved with another writer's.
WriteMessage(t) ==
    /\ tpc[t] = "write"
    /\ LET message == Record(t[1], t[2]) IN
        IF Len(message) <= BufSize
        THEN /\ fbuf' = [fbuf EXCEPT ![t] = message]
             /\ tpc' = [tpc EXCEPT ![t] = "unlock"]
             /\ UNCHANGED woff
        ELSE /\ woff' = [woff EXCEPT ![t] = Len(logf[t[2]])]
             /\ tpc' = [tpc EXCEPT ![t] = "write_data"]
             /\ UNCHANGED fbuf
    /\ UNCHANGED <<faa, sub_j, folded, logf, lock, fastaVars, collectVars>>

\* the bytes of the unbuffered write reach the file
WriteData(t) ==
    /\ tpc[t] = "write_data"
    /\ logf' = [logf EXCEPT ![t[2]] = WriteAt(@, woff[t], Record(t[1], t[2]))]
    /\ tpc' = [tpc EXCEPT ![t] = "unlock"]
    /\ UNCHANGED <<faa, sub_j, folded, fbuf, woff, lock, fastaVars, collectVars>>

\* fcntl.flock(f, fcntl.LOCK_UN)
ReleaseLock(t) ==
    /\ tpc[t] = "unlock"
    /\ lock' = [lock EXCEPT ![t[2]] = @ \ {t}]
    /\ tpc' = [tpc EXCEPT ![t] = "close"]
    /\ UNCHANGED <<faa, sub_j, folded, fbuf, woff, logf, fastaVars, collectVars>>

\* leaving the with block closes the file: what the file object still holds
\* is flushed now, as an append that starts by taking the end of the file
CloseLog(t) ==
    /\ tpc[t] = "close"
    /\ IF fbuf[t] = <<>>
       THEN /\ tpc' = [tpc EXCEPT ![t] = "done"]
            /\ UNCHANGED woff
       ELSE /\ woff' = [woff EXCEPT ![t] = Len(logf[t[2]])]
            /\ tpc' = [tpc EXCEPT ![t] = "close_data"]
    /\ lock' = [lock EXCEPT ![t[2]] = @ \ {t}]
    /\ UNCHANGED <<faa, sub_j, folded, fbuf, logf, fastaVars, collectVars>>

\* the flushed bytes reach the file and the descriptor is closed
CloseData(t) ==
    /\ tpc[t] = "close_data"
    /\ logf' = [logf EXCEPT ![t[2]] = WriteAt(@, woff[t], fbuf[t])]
    /\ fbuf' = [fbuf EXCEPT ![t] = <<>>]
    /\ tpc' = [tpc EXCEPT ![t] = "done"]
    /\ UNCHANGED <<faa, sub_j, folded, woff, lock, fastaVars, collectVars>>

write_to_shared_file(t) ==
    \/ OpenLog(t)
    \/ AcquireLock(t)
    \/ WriteMessage(t)
    \/ WriteData(t)
    \/ ReleaseLock(t)
    \/ CloseLog(t)
    \/ CloseData(t)

FoldInit ==
    /\ FastaIdle
    /\ CollectIdle
    /\ faa \in [Files -> EntryLists(MaxEntries)]
    /\ sub_j = 0
    /\ tpc = [t \in Tasks |-> "none"]
    /\ folded = [t \in Tasks |-> <<>>]
    /\ fbuf = [t \in Tasks |-> <<>>]
    /\ woff = [t \in Tasks |-> 0]
    /\ logf = [j \in Files |-> <<>>]
    /\ lock = [j \in Files |-> {}]

FoldNext ==
    \/ SubmitFile
    \/ \E t \in Tasks : StartTask(t)
    \/ \E t \in Tasks : write_to_shared_file(t)

SpecFold == FoldInit /\ [][FoldNext]_vars

\* N writers on one file, each about to call write_to_shared_file once
LogInit ==
    /\ FastaIdle
    /\ CollectIdle
    /\ \E e \in EntryLists(MaxEntries) :
        /\ e # <<>>
        /\ faa = [j \in Files |-> IF j = 0 THEN e ELSE <<>>]
        /\ tpc = [t \in Tasks |->
                    IF t[2] = 0 /\ t[1] < Len(e) THEN "open" ELSE "none"]
        /\ folded = [t \in Tasks |->
                    IF t[2] = 0 /\ t[1] < Len(e) THEN <<t[2], t[1]>> ELSE <<>>]
    /\ sub_j = MaxFiles
    /\ fbuf = [t \in Tasks |-> <<>>]
    /\ woff = [t \in Tasks |-> 0]
    /\ logf = [j \in Files |-> <<>>]
    /\ lock = [j \in Files |-> {}]

LogNext == \E t \in Tasks : write_to_shared_file(t)

SpecLog == LogInit /\ [][LogNext]_vars

\* f.write(message) raises (the message cannot be encoded, or the operating
\* system refuses the unbuffered write): nothing of the message is kept, the
\* lock is still held and the exception leaves the with block
WriteFails(t) ==
    /\ tpc[t] \in {"write", "write_data"}
    /\ tpc' = [tpc EXCEPT ![t] = "abort"]
    /\ UNCHANGED <<faa, sub_j, folded, fbuf, woff, logf, lock, fastaVars, collectVars>>

\* the lock is left as it is when the file is closed
AbortCloseKeepsLock(t) ==
    /\ tpc[t] = "abort"
    /\ tpc' = [tpc EXCEPT ![t] = "raised"]
    /\ UNCHANGED <<faa, sub_j, folded, fbuf, woff, logf, lock, fastaVars, collectVars>>

\* the with block closes the file on the way out of the exception: closing the
\* descriptor drops the lock taken on it, and the error propagates to the
\* caller, which does not catch it
AbortClose(t) ==
    /\ tpc[t] = "abort"
    /\ lock' = [lock EXCEPT ![t[2]] = @ \ {t}]
    /\ tpc' = [tpc EXCEPT ![t] = "raised"]
    /\ UNCHANGED <<faa, sub_j, folded, fbuf, woff, logf, fastaVars, collectVars>>

\* the flush at close raises: the buffered bytes are dropped, the descriptor
\* is closed all the same and the error propagates
FlushFails(t) ==
    /\ tpc[t] = "close_data"
    /\ fbuf' = [fbuf EXCEPT ![t] = <<>>]
    /\ tpc' = [tpc EXCEPT ![t] = "raised_close"]
    /\ UNCHANGED <<faa, sub_j, folded, woff, logf, lock, fastaVars, collectVars>>

\* the processes that may write the log of file 0
LogWriters == {t \in Tasks : t[2] = 0}

\* one writer process: the steps of its call and the way out of a failed write
Writer(t) == write_to_shared_file(t) \/ AbortClose(t)

LockNext ==
    \/ \E t \in LogWriters : Writer(t)
    \/ \E t \in LogWriters : WriteFails(t)
    \/ \E t \in LogWriters : FlushFails(t)

\* every writer process keeps being scheduled: its next step is taken if it
\* stays possible, the grant of a lock that stays free included; nothing
\* obliges a write to fail
LockFairness == \A t \in LogWriters : WF_vars(Writer(t))

SpecLock == LogInit /\ [][LockNext]_vars /\ LockFairness

(***************************************************************************)
(* Collector                                                                *)
(***************************************************************************)
\* A path is its stem, the "_"-separated tokens after it and its extension:
\* folded_7_0.pdb is Path("folded", <<Tok(7), Tok(0)>>, "pdb")
Tok(n) == [num |-> TRUE, val |-> n]
Word == [num |-> FALSE, val |-> 0]
Path(stem, toks, ext) == [stem |-> stem, toks |-> toks, ext |-> ext]

\* re.search(rf"{stem}_.*_{i}\.{ext}$", f)
MatchesPattern(f, stem, ext, i) ==
    /\ f.stem = stem
    /\ f.ext = ext
    /\ Len(f.toks) >= 2
    /\ f.toks[Len(f.toks)] = Tok(i)

\* re.search(r"_(\d+)_\d+\.ext$", x) finds a match
HasKey(f) ==
    /\ Len(f.toks) >= 2
    /\ f.toks[Len(f.toks)].num
    /\ f.toks[Len(f.toks) - 1].num

\* the sort key read from the last token, the one the pattern matched on
SortKeyLastToken(f) == f.toks[Len(f.toks)].val

\* int(re.search(r"_(\d+)_\d+\.ext$", x).group(1))
SortKey(f) == f.toks[Len(f.toks) - 1].val

\* sorted(..., key=...): stable, ascending
RECURSIVE InsertSorted(_, _)
InsertSorted(q, x) ==
    IF q = <<>> THEN <<x>>
    ELSE IF SortKey(x) < SortKey(Head(q)) THEN <<x>> \o q
    ELSE <<Head(q)>> \o InsertSorted(Tail(q), x)

RECURSIVE Sorted(_)
Sorted(q) ==
    IF q = <<>> THEN <<>>
    ELSE InsertSorted(Sorted(SubSeq(q, 1, Len(q) - 1)), q[Len(q)])

\* the files of the pool matching file index i, sorted; err when the key
\* pattern finds nothing in a matched path (None.group raises AttributeError)
MatchingFiles(pool, stem, ext, i) ==
    LET m == SelectSeq(pool, LAMBDA f : MatchesPattern(f, stem, ext, i))
    IN IF \E k \in 1..Len(m) : ~HasKey(m[k])
       THEN [err |-> TRUE, files |-> <<>>]
       ELSE [err |-> FALSE, files |-> Sorted(m)]

\* pd.read_csv(f): the columns and the rows of the table in f
ReadCsv(f) ==
    LET cols == IF tables = "other_columns" THEN {"sequence", "pLDDT", "pTM"}
                ELSE {"pTM_Score", "pLDDT_Score"}
    IN [columns |-> cols,
        rows |-> IF tables = "empty" THEN <<>> ELSE <<[c \in cols |-> f]>>]

\* pd.DataFrame()
EmptyFrame == [columns |-> {}, rows |-> <<>>]

\* <<>> stands for NaN, <<v>> for the value v
_safe_first(df, column) ==
    IF column \in df.columns /\ df.rows # <<>>
    THEN <<df.rows[1][column]>>
    ELSE <<>>

\* "if j <= len(files)"
InPoolOffByOne(j, files) == j <= Len(files)

\* "if j < len(files)"
InPool(j, files) == j < Len(files)

\* files[j]: <<>> stands for an IndexError
ItemAt(files, j) == IF j + 1 \in DOMAIN files THEN <<files[j + 1]>> ELSE <<>>

\* the row of entry j of file i (PDB: <<>> for None, <<f>> for the text of f)
_process_entry(j, i, pdbs, csvs) ==
    LET pdb == IF InPool(j, pdbs) THEN ItemAt(pdbs, j) ELSE <<>>
        csv == IF InPool(j, csvs) THEN ItemAt(csvs, j) ELSE <<>>
        df_analysis == IF InPool(j, csvs) /\ csv # <<>>
                       THEN ReadCsv(csv[1]) ELSE EmptyFrame
    IN [raised |-> IF \/ InPool(j, pdbs) /\ pdb = <<>>
                      \/ InPool(j, csvs) /\ csv = <<>>
                   THEN "IndexError" ELSE "",
        Description |-> <<"description", i, j>>,
        Sequence |-> <<"sequence", i, j>>,
        pTM_Score |-> _safe_first(df_analysis, "pTM_Score"),
        pLDDT_Score |-> _safe_first(df_analysis, "pLDDT_Score"),
        PDB |-> pdb,
        FAA_File |-> i]

\* "for j, ... in enumerate(zip(entries, descriptions))", first entry skipped
InnerItemsSkipFirst(entries) == 1..(Len(entries) - 1)

\* "for j, ... in enumerate(zip(entries, descriptions))"
InnerItems(entries) == 0..(Len(entries) - 1)

\* "len(pdb_files) < len(csv_files)"
PoolsMismatchOneSided(pdbs, csvs) == Len(pdbs) < Len(csvs)

\* "len(pdb_files) != len(csv_files)"
PoolsMismatch(pdbs, csvs) == Len(pdbs) # Len(csvs)

\* list(mps.mp_calc(_process_entry, inner_items)): the rows the workers
\* returned, put back in the order of the items
RECURSIVE RowsInItemOrder(_)
RowsInItemOrder(done) ==
    IF done = {} THEN <<>>
    ELSE LET first == CHOOSE d \in done : \A e \in done : d.j <= e.j
         IN <<first.row>> \o RowsInItemOrder(done \ {first})

\* the paths a scan may find: scheme-named structure files of every entry and
\* file, one with a word where the entry number goes, one left by the GPU task
PdbUniverse ==
    {Path("folded", <<Tok(e), Tok(f)>>, "pdb") :
        e \in 0..(MaxEntries - 1), f \in Files}
    \cup {Path("folded", <<Word, Tok(0)>>, "pdb"),
          Path("tmp", <<Tok(0), Tok(0)>>, "pdb")}

\* the order os.listdir gives them in (any order; here one that is not sorted)
RECURSIVE Listing(_)
Listing(P) ==
    IF P = {} THEN <<>>
    ELSE LET f == CHOOSE g \in P : \A h \in P :
                    g.toks[2].val + 2 * g.toks[1].val
                        >= h.toks[2].val + 2 * h.toks[1].val
         IN <<f>> \o Listing(P \ {f})

CsvOf(f) == Path("tmp", f.toks, "csv")

\* what a scan finds: at most MaxPool structure files; a score file beside
\* each, or one score file or one structure file missing
Scans ==
    UNION {
        LET l == Listing(P)
            c == [k \in 1..Len(l) |-> CsvOf(l[k])]
        IN {[pdb |-> l, csv |-> c, tables |-> t] :
                t \in {"scores", "empty", "other_columns"}}
           \cup (IF l = <<>> THEN {}
                 ELSE {[pdb |-> l, csv |-> Tail(c), tables |-> "scores"],
                       [pdb |-> Tail(l), csv |-> c, tables |-> "scores"]})
        : P \in {Q \in SUBSET PdbUniverse : Cardinality(Q) <= MaxPool}}

\* the sequence files: up to MaxEntries entries each
EntryCounts == {e \in EntryLists(MaxEntries) : \A k \in 1..Len(e) : e[k] = 1}

CollectInit ==
    /\ FastaIdle
    /\ faa \in [Files -> EntryCounts]
    /\ sub_j = 0
    /\ tpc = [t \in Tasks |-> "none"]
    /\ folded = [t \in Tasks |-> <<>>]
    /\ fbuf = [t \in Tasks |-> <<>>]
    /\ woff = [t \in Tasks |-> 0]
    /\ logf = [j \in Files |-> <<>>]
    /\ lock = [j \in Files |-> {}]
    /\ \E scan \in Scans :
        /\ pdb_files = scan.pdb
        /\ csv_files = scan.csv
        /\ tables = scan.tables
    /\ cpc = "scan"
    /\ ci = 0
    /\ parsed = <<>>
    /\ matching_pdb_files = <<>>
    /\ matching_csv_files = <<>>
    /\ chunked = {}
    /\ results = <<>>
    /\ written = <<>>

\* the check of the two totals
CheckPools ==
    /\ cpc = "scan"
    /\ cpc' = IF PoolsMismatch(pdb_files, csv_files) THEN "ValueError" ELSE "files"
    /\ UNCHANGED <<pdb_files, csv_files, tables, ci, parsed, matching_pdb_files,
                   matching_csv_files, chunked, results, written,
                   fastaVars, foldVars>>

\* _process_faa_item up to the call of mp_calc
ProcessFaaItem ==
    /\ cpc = "files"
    /\ ci < MaxFiles
    /\ parsed' = Append(parsed, ci)
    /\ LET mp == MatchingFiles(pdb_files, "folded", "pdb", ci)
           mc == MatchingFiles(csv_files, "tmp", "csv", ci)
       IN IF faa[ci] = <<>>
          THEN /\ ci' = ci + 1
               /\ UNCHANGED <<cpc, matching_pdb_files, matching_csv_files>>
          ELSE IF mp.err \/ mc.err
          THEN /\ cpc' = "AttributeError"
               /\ UNCHANGED <<ci, matching_pdb_files, matching_csv_files>>
          ELSE /\ cpc' = "mp_calc"
               /\ matching_pdb_files' = mp.files
               /\ matching_csv_files' = mc.files
               /\ UNCHANGED ci
    /\ chunked' = {}
    /\ UNCHANGED <<pdb_files, csv_files, tables, results, written,
                   fastaVars, foldVars>>

\* a worker of mp_calc runs _process_entry on one of the items
WorkerEntry(j) ==
    /\ cpc = "mp_calc"
    /\ j \in InnerItems(faa[ci])
    /\ \A d \in chunked : d.j # j
    /\ LET row == _process_entry(j, ci, matching_pdb_files, matching_csv_files)
       IN /\ chunked' = chunked \cup {[j |-> j, row |-> row]}
          /\ cpc' = IF row.raised # "" THEN row.raised ELSE cpc
    /\ UNCHANGED <<pdb_files, csv_files, tables, ci, parsed, matching_pdb_files,
                   matching_csv_files, results, written, fastaVars, foldVars>>

\* mp_calc has every row: _process_faa_item returns them and the main
\* program chains them after the rows of the files before
GatherFile ==
    /\ cpc = "mp_calc"
    /\ \A j \in InnerItems(faa[ci]) : \E d \in chunked : d.j = j
    /\ results' = results \o RowsInItemOrder(chunked)
    /\ chunked' = {}
    /\ ci' = ci + 1
    /\ cpc' = "files"
    /\ UNCHANGED <<pdb_files, csv_files, tables, parsed, matching_pdb_files,
                   matching_csv_files, written, fastaVars, foldVars>>

\* df_results.to_csv(...)
WriteTable ==
    /\ cpc = "files"
    /\ ci = MaxFiles
    /\ written' = <<results>>
    /\ cpc' = "done"
    /\ UNCHANGED <<pdb_files, csv_files, tables, ci, parsed, matching_pdb_files,
                   matching_csv_files, chunked, results, fastaVars, foldVars>>

CollectNext ==
    \/ CheckPools
    \/ ProcessFaaItem
    \/ \E j \in 0..MaxEntries : WorkerEntry(j)
    \/ GatherFile
    \/ WriteTable

SpecCollect == CollectInit /\ [][CollectNext]_vars

(***************************************************************************)
(* Reference reading of a FASTA text, for the claims about the reader      *)
(***************************************************************************)
RECURSIVE SplitLines(_)
SplitLines(s) ==
    IF s = <<>> THEN <<>>
    ELSE <<FirstLine(s)>> \o SplitLines(AfterFirstLine(s))

IsHeaderLine(l) == StartsWith(Strip(l), GT)
IsIgnoredLine(l) ==
    Strip(l) = <<>> \/ StartsWith(Strip(l), SEMI) \/ StartsWith(Strip(l), HASH)

\* the positions, in file order, of the header lines
HeaderPositions(ls) ==
    LET F[n \in 0..Len(ls)] ==
            IF n = 0 THEN <<>>
            ELSE IF IsHeaderLine(ls[n]) THEN Append(F[n - 1], n) ELSE F[n - 1]
    IN F[Len(ls)]

\* the sequence lines of the record whose header is at position h: the lines
\* after it, up to the next header or the end, that the reader does not ignore
RecordLines(ls, h, nextH) ==
    SelectSeq(SubSeq(ls, h + 1, nextH - 1), LAMBDA l : ~IsIgnoredLine(l))

RemoveWhitespace(s) == SelectSeq(s, LAMBDA c : ~IsSpace(c))

Returned == fpc \in {"returned", "reread"}

\* C2: the two lists grow together, and on return both have one element per
\* header line (a line that begins with ">" once stripped, as the reader
\* strips every line first), the k-th description being the stripped text
\* after the marker of the k-th header line; no header gives two empty lists.
Thm_C2_HeaderCount ==
    LET ls == SplitLines(text)
        hs == HeaderPositions(ls)
    IN /\ Len(descs_list) = Len(seqs_list)
       /\ Returned =>
            /\ Len(ret[1]) = Len(hs)
            /\ Len(ret[2]) = Len(hs)
            /\ \A k \in 1..Len(hs) :
                    ret[2][k] = Strip(Tail(Strip(ls[hs[k]])))

Wit_C2_TwoHeaders ==
    /\ fpc = "returned"
    /\ Len(ret[2]) = 2
    /\ ret[2][1] # <<>>
    /\ Len(SplitLines(text)) > 2

\* C3: every returned sequence is the concatenation, in file order, of the
\* sequence lines of its record (the lines after its header that are neither
\* blank nor comments) with all whitespace removed.
Claim_C3_WhitespaceRemoved ==
    LET ls == SplitLines(text)
        hs == HeaderPositions(ls)
    IN fpc = "returned" =>
        \A k \in 1..Len(ret[1]) :
            k <= Len(hs) =>
                ret[1][k] = RemoveWhitespace(Join(RecordLines(ls, hs[k],
                    IF k < Len(hs) THEN hs[k + 1] ELSE Len(ls) + 1)))

\* C4 as stated: reading the reconstructed file returns the same pairs in the
\* same order, whatever the returned pairs and the wrap width.
Claim_C4_RoundTrip ==
    fpc = "reread" => reread = ret

\* the lines a sequence is wrapped over at width w
RECURSIVE WrappedLines(_, _)
WrappedLines(s, w) ==
    IF Len(s) <= w THEN <<s>>
    ELSE <<SubSeq(s, 1, w)>> \o WrappedLines(SubSeq(s, w + 1, Len(s)), w)

\* a wrapped line the reader takes back unchanged as a sequence line
LineSurvives(l) ==
    l = <<>> \/ ( /\ l[1] \notin {GT, SEMI, HASH}
                   /\ ~IsSpace(l[1])
                   /\ ~IsSpace(l[Len(l)]) )

WrapSafe(seqs, w) ==
    \A k \in 1..Len(seqs) :
        LET wl == WrappedLines(seqs[k], w)
        IN \A n \in 1..Len(wl) : LineSurvives(wl[n])

\* C4 (amended): the round trip returns the same pairs in the same order
\* whenever no wrapped sequence line begins with ">", ";" or "#" and none
\* begins or ends with a whitespace character.
Thm_C4_RoundTripSafeWrap ==
    (fpc = "reread" /\ WrapSafe(ret[1], wrap)) => reread = ret

Wit_C4_Wrapped ==
    /\ fpc = "reread"
    /\ WrapSafe(ret[1], wrap)
    /\ Len(ret[1]) >= 1
    /\ Len(ret[1][1]) > wrap
    /\ ret[2][1] # <<>>
    /\ reread = ret

(***************************************************************************)
(* Claims about the shared append log and the array tasks                   *)
(***************************************************************************)
RECURSIVE SumSeq(_)
SumSeq(q) == IF q = <<>> THEN 0 ELSE Head(q) + SumSeq(Tail(q))

\* the tasks of the entries of file j
EntryTasks(j) == {t \in Tasks : t[2] = j /\ t[1] < Len(faa[j])}

\* content holds the record of task t once, as one contiguous block
HoldsRecord(content, t) ==
    LET r == Record(t[1], t[2]) IN
    \E off \in 0..(Len(content) - Len(r)) :
        SubSeq(content, off + 1, off + Len(r)) = r

\* content is made of the complete records of the entries of file j, each
\* once, and of nothing else (the bytes of a record are its own)
ExactlyTheRecords(content, j) ==
    /\ Len(content) = SumSeq(faa[j])
    /\ \A t \in EntryTasks(j) : HoldsRecord(content, t)

AllDone(j) == \A t \in EntryTasks(j) : tpc[t] = "done"

\* C1: when the N writers of one file have all opened, locked, written,
\* unlocked and closed, the file holds exactly N complete records, each
\* writer's record once as one contiguous block.
Claim_C1_NoInterleaving ==
    AllDone(0) => ExactlyTheRecords(logf[0], 0)

Terminated(t) == tpc[t] \in {"done", "raised", "raised_close"}

\* C11: with N writers of one file and a fair lock, at most one writer holds
\* the lock at any time, no terminated writer holds it (a writer whose write
\* failed under the lock included), a terminated writer takes no further step
\* (no retry), and every writer eventually acquires the lock and eventually
\* terminates, normally or with the error propagated.
Thm_C11_LockLiveness ==
    /\ [](\A j \in Files : Cardinality(lock[j]) <= 1)
    /\ [](\A t \in Tasks : Terminated(t) => t \notin lock[t[2]])
    /\ [][\A t \in Tasks : Terminated(t) =>
                (tpc'[t] = tpc[t] /\ (t \in lock'[t[2]]) = (t \in lock[t[2]]))]_vars
    /\ \A t \in LogWriters : (tpc[t] = "open") ~> (t \in lock[t[2]])
    /\ \A t \in LogWriters : (tpc[t] = "open") ~> Terminated(t)

\* a writer's write failed under the lock and the error propagated, and
\* another writer of the same file now holds the lock
Wit_C11_FailedWriterDoesNotBlock ==
    \E t, u \in Tasks :
        /\ t # u
        /\ t[2] = u[2]
        /\ tpc[t] = "raised"
        /\ lock[u[2]] = {u}
        /\ tpc[u] \in {"write", "write_data", "unlock"}

\* C9: the array range of file j yields exactly the task indices 0..n-1, each
\* task reads entry i of file j within range, distinct tasks fold distinct
\* entries, and once all tasks of the file have finished its log holds exactly
\* one record per entry of the file and no record of another file's entry.
Claim_C9_TasksAndLog ==
    /\ \A t \in Tasks : tpc[t] # "none" => t \in EntryTasks(t[2])
    /\ \A j \in Files : j < sub_j => \A t \in EntryTasks(j) : tpc[t] # "none"
    /\ \A t \in Tasks : tpc[t] # "index_error"
    /\ \A t \in Tasks : folded[t] # <<>> => folded[t] = <<t[2], t[1]>>
    /\ \A t, u \in Tasks : (folded[t] # <<>> /\ folded[t] = folded[u]) => t = u
    /\ \A j \in Files :
        (j < sub_j /\ AllDone(j)) => ExactlyTheRecords(logf[j], j)

\* the part of C9 that does not rest on the log
TasksMatchEntries ==
    /\ \A t \in Tasks : tpc[t] # "none" => t \in EntryTasks(t[2])
    /\ \A j \in Files : j < sub_j => \A t \in EntryTasks(j) : tpc[t] # "none"
    /\ \A t \in Tasks : tpc[t] # "index_error"
    /\ \A t \in Tasks : folded[t] # <<>> => folded[t] = <<t[2], t[1]>>

(***************************************************************************)
(* Claims about the collector                                               *)
(***************************************************************************)
Range(q) == {q[k] : k \in 1..Len(q)}

\* C5: whatever the entry index and the lengths of the two matched pools,
\* _process_entry returns a row and raises no IndexError; an index not below
\* the length of the structure pool gives the absent structure, an index not
\* below the length of the score pool gives both scores missing.
Thm_C5_IndexBeyondPool ==
    /\ cpc # "IndexError"
    /\ \A d \in chunked :
        /\ d.row.raised = ""
        /\ d.j >= Len(matching_pdb_files) => d.row.PDB = <<>>
        /\ d.j >= Len(matching_csv_files) =>
                (d.row.pTM_Score = <<>> /\ d.row.pLDDT_Score = <<>>)

Wit_C5_BeyondNonEmptyPool ==
    \E d \in chunked :
        /\ Len(matching_pdb_files) >= 1
        /\ d.j >= Len(matching_pdb_files)
        /\ d.j >= Len(matching_csv_files)
        /\ d.row.PDB = <<>>
        /\ d.row.pTM_Score = <<>>

PoolsDiffer == Len(pdb_files) # Len(csv_files)

\* C6: when the two totals differ the run stops at the check with a fatal
\* error: no sequence file is parsed, no entry processed and no table written;
\* files and entries are processed only in runs where the totals are equal.
Thm_C6_MismatchIsFatalFirst ==
    /\ PoolsDiffer =>
        /\ cpc \in {"scan", "ValueError"}
        /\ parsed = <<>>
        /\ chunked = {}
        /\ results = <<>>
        /\ written = <<>>
    /\ cpc = "ValueError" => (PoolsDiffer /\ ~ENABLED CollectNext)
    /\ (cpc = "scan" /\ ~PoolsDiffer) => ENABLED CheckPools

Wit_C6_Mismatch ==
    /\ cpc = "ValueError"
    /\ Len(pdb_files) = 2
    /\ Len(csv_files) = 1

\* the rows, among rows, of entry j of file i
RowsOf(rows, i, j) ==
    {k \in 1..Len(rows) :
        /\ rows[k].Sequence = <<"sequence", i, j>>
        /\ rows[k].Description = <<"description", i, j>>
        /\ rows[k].FAA_File = i}

\* C7: a run that passed the check and came to its end has collected exactly
\* one row for every entry of every sequence file and no other row, a file
\* without entries gives no row and no error, and at any time the rows of
\* file i come before the rows of file i+1 and no entry has two rows.
Thm_C7_OneRowPerEntry ==
    /\ \A k, l \in 1..Len(results) :
        k < l => /\ results[k].FAA_File <= results[l].FAA_File
                 /\ results[k].Sequence # results[l].Sequence
    /\ cpc = "done" =>
        /\ written = <<results>>
        /\ Len(results) = SumSeq([i \in 1..MaxFiles |-> Len(faa[i - 1])])
        /\ \A i \in Files : \A j \in 0..(Len(faa[i]) - 1) :
                Cardinality(RowsOf(results, i, j)) = 1

Wit_C7_TwoFiles ==
    /\ cpc = "done"
    /\ Len(faa[0]) = 2
    /\ Len(faa[1]) = 1
    /\ Len(written[1]) = 3

\* the token before the last and the last token of a path
TokenBeforeLast(f) == f.toks[Len(f.toks) - 1]
LastToken(f) == f.toks[Len(f.toks)]

CarriesToken(f, i) == \E k \in 1..Len(f.toks) : f.toks[k] = Tok(i)

Ascending(q, Key(_)) == \A k, l \in 1..Len(q) : k < l => Key(q[k]) <= Key(q[l])

LastVal(f) == LastToken(f).val
BeforeLastVal(f) == TokenBeforeLast(f).val

NamedForFile(pool, stem, ext, i) ==
    {f \in Range(pool) :
        /\ f.stem = stem /\ f.ext = ext
        /\ Len(f.toks) >= 2
        /\ LastToken(f) = Tok(i)}

\* how often f occurs in q (a name may be found in several directories)
Count(q, f) == Cardinality({k \in 1..Len(q) : q[k] = f})

MatchedAsNamed(matched, pool, stem, ext, i) ==
    /\ Range(matched) = NamedForFile(pool, stem, ext, i)
    /\ \A f \in Range(matched) : Count(matched, f) = Count(pool, f)
    /\ \A f \in Range(matched) : TokenBeforeLast(f).num
    /\ Ascending(matched, BeforeLastVal)

FromEntry(v, i, j) ==
    v # <<>> => (TokenBeforeLast(v[1]) = Tok(j) /\ LastToken(v[1]) = Tok(i))

RowOfOneEntry(row) ==
    LET i == row.Sequence[2]
        j == row.Sequence[3]
    IN /\ FromEntry(row.PDB, i, j)
       /\ FromEntry(row.pTM_Score, i, j)
       /\ FromEntry(row.pLDDT_Score, i, j)

\* C10: whatever artifact files are present, a structure or a score in the
\* row of entry j of file i was read from the file that carries the
\* per-entry identifier j, so they belong to the entry of the row.
Claim_C10_RowOfOneEntry ==
    /\ \A d \in chunked : RowOfOneEntry(d.row)
    /\ \A k \in 1..Len(results) : RowOfOneEntry(results[k])

====
